---- MODULE Spec2Model ----
(***************************************************************************)
(* Model of the enter/exit tracing decorator of tracing.py.                *)
(*                                                                         *)
(* Python values are tagged records [t, v].  A Python string that the      *)
(* tracer builds with the % operator or with join is a sequence of string  *)
(* fragments; concatenation of Python strings is \o of those sequences.    *)
(* The text of repr(value) is one fragment.                                *)
(***************************************************************************)
EXTENDS Integers, Sequences, FiniteSets

VARIABLES
    oncall,       \* trace(oncall=...)
    onexception,  \* trace(onexception=...)
    onreturn,     \* trace(onreturn=...)
    timing,       \* trace(timing=...)
    func,         \* the decorated callable: its name and its argspec
    pc,           \* position of the current invocation of trace__
    args,         \* trace__'s *args
    kwargs,       \* trace__'s **kwargs
    entr_done,    \* local of trace__
    timing_str,   \* local of trace__
    saved,        \* callargs_str._saved, Unset until first computed
    invoked,      \* the calls func has received during this invocation
    outcome,      \* what func did: <<"return", v>> or <<"raise", e>>
    result,       \* what trace__ did to its caller, NoResult while running
    out,          \* the records the output sink has received
    computed,     \* how often callargs_repr has run in this invocation
    evals,        \* the predicates match was given in this invocation
    frames,       \* the frames of trace__ of several invocations
    sink          \* the records those invocations have put out

\* the frames of several invocations and their sink
frameVars == <<frames, sink>>

vars == <<oncall, onexception, onreturn, timing, func, pc, args, kwargs,
          entr_done, timing_str, saved, invoked, outcome, result, out,
          computed, evals, frames, sink>>

-----------------------------------------------------------------------------
(* Bounds *)

MaxArgs == 2     \* most positional arguments of one call
MaxClock == 1    \* time.time() * 1e6 reads a value in 0..MaxClock

-----------------------------------------------------------------------------
(* Python values *)

None == [t |-> "none", v |-> 0]
PyFalse == [t |-> "bool", v |-> 0]
PyTrue == [t |-> "bool", v |-> 1]
PyInt(i) == [t |-> "int", v |-> i]
PyStr(s) == [t |-> "str", v |-> s]
PyTuple(s) == [t |-> "tuple", v |-> s]
PyList(s) == [t |-> "list", v |-> s]
\* a dict is the sequence of its <<key, value>> items, keys being str
PyDict(s) == [t |-> "dict", v |-> s]
\* a function object, named
PyFunc(n) == [t |-> "function", v |-> n]
\* an exception object: its class name and str(e)
PyExc(cls, msg) == [t |-> "exc", v |-> <<cls, msg>>]

\* a == b on the values above
PyEq(a, b) == a.t = b.t /\ a.v = b.v

\* bool(x)
Truthy(x) ==
    CASE x.t = "none" -> FALSE
      [] x.t = "bool" -> x.v = 1
      [] x.t = "int" -> x.v # 0
      [] x.t = "str" -> x.v # ""
      [] x.t \in {"tuple", "list", "dict"} -> Len(x.v) > 0
      [] OTHER -> TRUE

\* the classes that except Exception catches; the others derive from
\* BaseException only
ExceptionClasses == {"Exception", "ValueError", "TypeError"}

IsException(e) == e.v[1] \in ExceptionClasses

\* callargs_str before its _saved attribute exists
Unset == [set |-> FALSE, val |-> <<>>]
NoResult == <<"none", None>>

-----------------------------------------------------------------------------
(* repr *)

Digits == <<"0", "1", "2", "3", "4", "5", "6", "7", "8", "9">>

RECURSIVE NatStr(_)
NatStr(n) == IF n < 10 THEN Digits[n + 1]
             ELSE NatStr(n \div 10) \o Digits[(n % 10) + 1]

\* '%d' % i, and repr(i) of an int
IntStr(i) == IF i < 0 THEN "-" \o NatStr(-i) ELSE NatStr(i)

RECURSIVE ReprItems(_, _)
RECURSIVE repr(_)
\* repr(value), as one fragment
repr(x) ==
    CASE x.t = "none" -> "None"
      [] x.t = "bool" -> IF x.v = 1 THEN "True" ELSE "False"
      [] x.t = "int" -> IntStr(x.v)
      [] x.t = "str" -> "'" \o x.v \o "'"
      [] x.t = "tuple" ->
            IF Len(x.v) = 1 THEN "(" \o repr(x.v[1]) \o ",)"
            ELSE "(" \o ReprItems(x.v, "seq") \o ")"
      [] x.t = "list" -> "[" \o ReprItems(x.v, "seq") \o "]"
      [] x.t = "dict" -> "{" \o ReprItems(x.v, "map") \o "}"
      [] x.t = "function" -> "<function " \o x.v \o ">"
      [] x.t = "exc" -> x.v[1] \o "('" \o x.v[2] \o "')"

ReprItems(s, how) ==
    IF s = <<>> THEN ""
    ELSE LET item == IF how = "map"
                     THEN "'" \o s[1][1] \o "': " \o repr(s[1][2])
                     ELSE repr(s[1])
         IN  IF Len(s) = 1 THEN item
             ELSE item \o ", " \o ReprItems(Tail(s), how)

\* def _repr(name, value)
_repr(name, value) == repr(value)

\* the xfrm option, left at its default
xfrm(name, value) == _repr(name, value)

-----------------------------------------------------------------------------
(* trace: the predicate matcher *)

\* callable(onX)
callable(x) == x.t = "function"

\* isinstance(onX, Iterable), for the kinds of value a predicate is given
IsIterable(x) == x.t \in {"tuple", "list"}

\* val in onX, for a tuple or a list
Contains(onX, val) == \E i \in 1..Len(onX.v) : PyEq(onX.v[i], val)

\* onX(val) for the evaluators the callers below configure, as bool()
Apply(onX, val) ==
    CASE onX.v = "has_posargs" -> val.t = "tuple" /\ Len(val.v[1].v) > 0
      [] onX.v = "is_value_error" -> val.t = "exc" /\ val.v[1] = "ValueError"
      [] onX.v = "is_none" -> val.t = "none"
      [] OTHER -> FALSE

\* match without the test onX is True; C9_Match tells it from match
match_NoIdentity(onX, val) ==
    IF ~Truthy(onX) THEN FALSE
    ELSE IF callable(onX) THEN Apply(onX, val)
    ELSE IF IsIterable(onX) THEN Contains(onX, val)
    ELSE PyEq(onX, val)

match(onX, val) ==
    IF ~Truthy(onX) THEN FALSE
    ELSE IF onX = PyTrue THEN TRUE
    ELSE IF callable(onX) THEN Apply(onX, val)
    ELSE IF IsIterable(onX) THEN Contains(onX, val)
    ELSE PyEq(onX, val)

-----------------------------------------------------------------------------
(* trace_: the signature of the decorated callable *)

Min(a, b) == IF a < b THEN a ELSE b
Max(a, b) == IF a > b THEN a ELSE b

\* [x] * n, which is [] for n <= 0
Repeat(x, n) == [i \in 1..Max(n, 0) |-> x]

\* inspect.getargspec(func); defaults is <<>> where getargspec gives None
argspec == func.argspec

\* the list zip(argspec.args, defaults) of [name, default] pairs
args_defaults ==
    LET defaults == IF Len(argspec.defaults) > 0
                    THEN Repeat(None, Len(argspec.args) - Len(argspec.defaults))
                         \o argspec.defaults
                    ELSE Repeat(None, Len(argspec.args))
    IN  [i \in 1..Min(Len(argspec.args), Len(defaults)) |->
            <<argspec.args[i], defaults[i]>>]

-----------------------------------------------------------------------------
(* callargs_repr *)

\* k in d, d[k] for a dict or OrderedDict given as its sequence of items
HasKey(d, k) == \E i \in 1..Len(d) : d[i][1] = k
Lookup(d, k) == d[CHOOSE i \in 1..Len(d) : d[i][1] = k][2]

\* args[0:n]
Take(s, n) == SubSeq(s, 1, Min(Len(s), Max(n, 0)))
\* args[n:]
Drop(s, n) == SubSeq(s, Min(Len(s), Max(n, 0)) + 1, Len(s))

\* args_position without the padding for the parameters no positional
\* argument reaches; C7_Shape tells it from args_position
args_position_NoPad(a) == Take(a, Len(argspec.args))

args_position(a) ==
    Take(a, Len(argspec.args)) \o Repeat(None, Len(argspec.args) - Len(a))

\* the OrderedDict args_data after the keyword overlay
args_data(a, kw) ==
    LET pos == args_position(a)
        zipped == [i \in 1..Min(Len(args_defaults), Len(pos)) |->
                     <<args_defaults[i][1],
                       IF pos[i] = None THEN args_defaults[i][2] ELSE pos[i]>>]
    IN  [i \in 1..Len(zipped) |->
            <<zipped[i][1],
              IF HasKey(kw, zipped[i][1]) THEN Lookup(kw, zipped[i][1])
              ELSE zipped[i][2]>>]

\* the keyword arguments naming no entry of args_data
varkwargs(a, kw) ==
    LET keep(i) == ~HasKey(args_data(a, kw), kw[i][1])
        F[n \in 0..Len(kw)] ==
            IF n = 0 THEN <<>>
            ELSE IF keep(n) THEN Append(F[n - 1], kw[n]) ELSE F[n - 1]
    IN  F[Len(kw)]

varargs(a) == Drop(a, Len(argspec.args))

\* the list arglist, each entry '%s=%s' % (name, xfrm(name, value))
arglist(a, kw) ==
    LET d == args_data(a, kw)
        declared == [i \in 1..Len(d) |-> <<d[i][1], "=", xfrm(d[i][1], d[i][2])>>]
        va == IF Truthy(argspec.varargs)
              THEN << <<"*" \o argspec.varargs.v, "=",
                        xfrm("*" \o argspec.varargs.v, PyTuple(varargs(a)))>> >>
              ELSE <<>>
        vk == IF Truthy(argspec.keywords)
              THEN << <<"**" \o argspec.keywords.v, "=",
                        xfrm("**" \o argspec.keywords.v,
                             PyDict(varkwargs(a, kw)))>> >>
              ELSE <<>>
    IN  declared \o va \o vk

\* ', '.join(l)
RECURSIVE Join(_)
Join(l) == IF l = <<>> THEN <<>>
           ELSE IF Len(l) = 1 THEN l[1]
           ELSE l[1] \o <<", ">> \o Join(Tail(l))

callargs_repr(a, kw) == Join(arglist(a, kw))

\* callargs_str(): the saved text, or the text it computes and saves
callargs_str ==
    IF saved.set THEN saved.val
    ELSE callargs_repr(<<PyTuple(args), PyDict(kwargs)>>, <<>>)

-----------------------------------------------------------------------------
(* The callers: decorated callables, configurations and calls *)

Signature(n, a, va, kw, d) ==
    [name |-> n,
     argspec |-> [args |-> a, varargs |-> va, keywords |-> kw, defaults |-> d]]

\* def abcd0(), def h(a), def f(a, b=2), def abcd1(a, b, c),
\* def abcd2(a, b=2, *args, **kwargs)
Funcs ==
    {Signature("abcd0", <<>>, None, None, <<>>),
     Signature("h", <<"a">>, None, None, <<>>),
     Signature("f", <<"a", "b">>, None, None, <<PyInt(2)>>),
     Signature("abcd1", <<"a", "b", "c">>, None, None, <<>>),
     Signature("abcd2", <<"a", "b">>, PyStr("args"), PyStr("kwargs"),
               <<PyInt(2)>>)}

\* the value match is given for oncall
CallPair(a, kw) == PyTuple(<<PyTuple(a), PyDict(kw)>>)

OnCallCfgs ==
    {PyFalse, PyTrue, PyFunc("has_posargs"),
     PyList(<<CallPair(<<PyInt(1)>>, <<>>)>>), PyInt(3)}

OnExceptionCfgs ==
    {PyFalse, PyTrue, PyFunc("is_value_error"), PyList(<<PyInt(2)>>), PyInt(0)}

OnReturnCfgs ==
    {PyFalse, PyTrue, PyFunc("is_none"),
     PyList(<<PyInt(2), PyInt(3), PyInt(4)>>), PyInt(0), PyInt(3)}

ArgVals == {PyInt(1), None}

\* the tuples of at most n values of S
SeqsUpTo(S, n) == UNION {[1..m -> S] : m \in 0..n}

ArgsChoices == SeqsUpTo(ArgVals, MaxArgs)

\* no keyword argument, or b=9, x=4
KwargsChoices == {<<>>, << <<"b", PyInt(9)>>, <<"x", PyInt(4)>> >>}

RetVals == {None, PyInt(0), PyInt(3), PyInt(9)}

\* the TypeError of a call whose arguments do not fit the parameters
ArityError == PyExc("TypeError", "arguments")

Errors == {PyExc("ValueError", "bad"), PyExc("KeyboardInterrupt", ""), ArityError}

Clock == 0..MaxClock

-----------------------------------------------------------------------------
(* trace__ *)

retval == outcome[2]
e == outcome[2]

\* timing_fmt % (end_time - start_time)
timing_fmt(usecs) == <<" (", IntStr(usecs), " usecs)">>

\* output(text)
output(text) == out' = Append(out, text)

\* callargs_str() is called: callargs_repr runs unless _saved exists
call_callargs_str ==
    /\ saved' = [set |-> TRUE, val |-> callargs_str]
    /\ computed' = IF saved.set THEN computed ELSE computed + 1

\* func(*args, **kwargs) binds its parameters: no positional argument
\* beyond the declared ones unless *name is declared, no keyword argument
\* naming a parameter a positional argument has bound or naming none unless
\* **name is declared, and a value for every parameter without default
ArityOK(a, kw) ==
    LET n == Len(argspec.args)
        names == {argspec.args[i] : i \in 1..n}
        bound == {argspec.args[i] : i \in 1..Min(n, Len(a))}
    IN  /\ Len(a) > n => Truthy(argspec.varargs)
        /\ \A i \in 1..Len(kw) :
              /\ kw[i][1] \notin bound
              /\ kw[i][1] \notin names => Truthy(argspec.keywords)
        /\ \A i \in 1..(n - Len(argspec.defaults)) :
              i <= Len(a) \/ HasKey(kw, argspec.args[i])

Init ==
    /\ oncall \in OnCallCfgs
    /\ onexception \in OnExceptionCfgs
    /\ onreturn \in OnReturnCfgs
    /\ timing \in BOOLEAN
    /\ func \in Funcs
    /\ pc = "idle"
    /\ args = <<>>
    /\ kwargs = <<>>
    /\ entr_done = FALSE
    /\ timing_str = <<>>
    /\ saved = Unset
    /\ computed = 0
    /\ evals = <<>>
    /\ frames = <<>>
    /\ sink = <<>>
    /\ invoked = <<>>
    /\ outcome = NoResult
    /\ result = NoResult
    /\ out = <<>>

\* a caller calls the wrapper: trace__(*args, **kwargs) and its first lines
Call(a, kw) ==
    /\ pc = "idle"
    /\ args' = a
    /\ kwargs' = kw
    /\ entr_done' = FALSE
    /\ timing_str' = <<>>
    /\ saved' = Unset
    /\ computed' = 0
    /\ evals' = <<>>
    /\ UNCHANGED frameVars
    /\ pc' = "oncall"
    /\ UNCHANGED <<oncall, onexception, onreturn, timing, func, invoked,
                   outcome, result, out>>

\* Entry setting entr_done without the output; C4_EventOrder tells it
\* from Entry
Entry_Silent ==
    /\ pc = "oncall"
    /\ evals' = Append(evals, "oncall")
    /\ UNCHANGED frameVars
    /\ entr_done' = match(oncall, CallPair(args, kwargs))
    /\ pc' = "try"
    /\ UNCHANGED <<oncall, onexception, onreturn, timing, func, args, kwargs,
                   timing_str, saved, computed, invoked, outcome, result, out>>

\* Entry rendering the arguments before it tests oncall; C12_RenderedOnce
\* tells it from Entry
Entry_Eager ==
    /\ pc = "oncall"
    /\ evals' = Append(evals, "oncall")
    /\ UNCHANGED frameVars
    /\ call_callargs_str
    /\ IF match(oncall, CallPair(args, kwargs))
       THEN /\ output(<<"entr ", func.name, "(">> \o callargs_str \o <<")">>)
            /\ entr_done' = TRUE
       ELSE UNCHANGED <<out, entr_done>>
    /\ pc' = "try"
    /\ UNCHANGED <<oncall, onexception, onreturn, timing, func, args, kwargs,
                   timing_str, invoked, outcome, result>>

\* Entry raising a TypeError of its own when the arguments do not fit the
\* signature; C14_Total tells it from Entry
Entry_ChecksArity ==
    /\ pc = "oncall"
    /\ evals' = Append(evals, "oncall")
    /\ UNCHANGED frameVars
    /\ IF ~ArityOK(args, kwargs)
       THEN /\ result' = <<"raise", ArityError>>
            /\ outcome' = <<"raise", ArityError>>
            /\ pc' = "done"
            /\ UNCHANGED <<out, saved, computed, entr_done>>
       ELSE /\ IF match(oncall, CallPair(args, kwargs))
               THEN /\ output(<<"entr ", func.name, "(">> \o callargs_str
                              \o <<")">>)
                    /\ call_callargs_str
                    /\ entr_done' = TRUE
               ELSE UNCHANGED <<out, saved, computed, entr_done>>
            /\ pc' = "try"
            /\ UNCHANGED <<result, outcome>>
    /\ UNCHANGED <<oncall, onexception, onreturn, timing, func, args, kwargs,
                   timing_str, invoked>>

\* if match(oncall, (args, kwargs)): output('entr ...'); entr_done = True
Entry ==
    /\ pc = "oncall"
    /\ evals' = Append(evals, "oncall")
    /\ UNCHANGED frameVars
    /\ IF match(oncall, CallPair(args, kwargs))
       THEN /\ output(<<"entr ", func.name, "(">> \o callargs_str \o <<")">>)
            /\ call_callargs_str
            /\ entr_done' = TRUE
       ELSE UNCHANGED <<out, saved, computed, entr_done>>
    /\ pc' = "try"
    /\ UNCHANGED <<oncall, onexception, onreturn, timing, func, args, kwargs,
                   timing_str, invoked, outcome, result>>

\* FuncReturns calling func(args, kwargs); C10_PassThrough tells it from
\* FuncReturns
FuncReturns_Packed(v, start_time, end_time) ==
    /\ pc = "try"
    /\ ArityOK(args, kwargs)
    /\ UNCHANGED <<evals, frameVars>>
    /\ invoked' = Append(invoked, << <<PyTuple(args), PyDict(kwargs)>>, <<>> >>)
    /\ outcome' = <<"return", v>>
    /\ timing_str' = IF timing THEN timing_fmt(end_time - start_time)
                     ELSE timing_str
    /\ pc' = "onreturn"
    /\ UNCHANGED <<oncall, onexception, onreturn, timing, func, args, kwargs,
                   entr_done, saved, computed, result, out>>

\* the try block when func returns v
FuncReturns(v, start_time, end_time) ==
    /\ pc = "try"
    /\ ArityOK(args, kwargs)
    /\ UNCHANGED <<evals, frameVars>>
    /\ invoked' = Append(invoked, <<args, kwargs>>)
    /\ outcome' = <<"return", v>>
    /\ timing_str' = IF timing THEN timing_fmt(end_time - start_time)
                     ELSE timing_str
    /\ pc' = "onreturn"
    /\ UNCHANGED <<oncall, onexception, onreturn, timing, func, args, kwargs,
                   entr_done, saved, computed, result, out>>

\* FuncRaises with no timing_str in the except block; C8_Suffix tells it
\* from FuncRaises
FuncRaises_NoTiming(x, start_time, end_time) ==
    /\ pc = "try"
    /\ ArityOK(args, kwargs) \/ x = ArityError
    /\ UNCHANGED <<evals, frameVars>>
    /\ invoked' = Append(invoked, <<args, kwargs>>)
    /\ outcome' = <<"raise", x>>
    /\ IF IsException(x)
       THEN pc' = "onexception" /\ UNCHANGED result
       ELSE result' = <<"raise", x>> /\ pc' = "done"
    /\ UNCHANGED <<oncall, onexception, onreturn, timing, func, args, kwargs,
                   entr_done, timing_str, saved, computed, out>>

\* the try block when func raises x: except Exception as e catches it, or
\* it leaves trace__ at once
FuncRaises(x, start_time, end_time) ==
    /\ pc = "try"
    /\ ArityOK(args, kwargs) \/ x = ArityError
    /\ UNCHANGED <<evals, frameVars>>
    /\ invoked' = Append(invoked, <<args, kwargs>>)
    /\ outcome' = <<"raise", x>>
    /\ IF IsException(x)
       THEN /\ timing_str' = IF timing THEN timing_fmt(end_time - start_time)
                             ELSE timing_str
            /\ pc' = "onexception"
            /\ UNCHANGED result
       ELSE /\ result' = <<"raise", x>>
            /\ pc' = "done"
            /\ UNCHANGED timing_str
    /\ UNCHANGED <<oncall, onexception, onreturn, timing, func, args, kwargs,
                   entr_done, saved, computed, out>>

\* Except without the raise after a reported error; C1_Propagated tells
\* it from Except
Except_Swallows ==
    /\ pc = "onexception"
    /\ evals' = Append(evals, "onexception")
    /\ UNCHANGED frameVars
    /\ IF match(onexception, e)
       THEN /\ IF entr_done
               THEN /\ output(<<"excp ", func.name, " raised ", e.v[1], " ",
                                e.v[2]>> \o timing_str)
                    /\ UNCHANGED <<saved, computed>>
               ELSE /\ output(<<"cexp ", func.name, "(">> \o callargs_str
                              \o <<") raised ", e.v[1], " ", e.v[2]>>
                              \o timing_str)
                    /\ call_callargs_str
            /\ result' = <<"return", None>>
       ELSE /\ UNCHANGED <<out, saved, computed>>
            /\ result' = <<"raise", e>>
    /\ pc' = "done"
    /\ UNCHANGED <<oncall, onexception, onreturn, timing, func, args, kwargs,
                   entr_done, timing_str, invoked, outcome>>

\* Except with the test of entr_done inverted; C3_ClosingKind tells it from
\* Except
Except_KindsSwapped ==
    /\ pc = "onexception"
    /\ evals' = Append(evals, "onexception")
    /\ UNCHANGED frameVars
    /\ IF match(onexception, e)
       THEN IF ~entr_done
            THEN /\ output(<<"excp ", func.name, " raised ", e.v[1], " ",
                             e.v[2]>> \o timing_str)
                 /\ UNCHANGED <<saved, computed>>
            ELSE /\ output(<<"cexp ", func.name, "(">> \o callargs_str
                           \o <<") raised ", e.v[1], " ", e.v[2]>>
                           \o timing_str)
                 /\ call_callargs_str
       ELSE UNCHANGED <<out, saved, computed>>
    /\ result' = <<"raise", e>>
    /\ pc' = "done"
    /\ UNCHANGED <<oncall, onexception, onreturn, timing, func, args, kwargs,
                   entr_done, timing_str, invoked, outcome>>

\* Except without the raise, control reaching the test of onreturn;
\* C15_TwoRecords tells it from Except
Except_FallsThrough ==
    /\ pc = "onexception"
    /\ evals' = Append(evals, "onexception")
    /\ UNCHANGED frameVars
    /\ IF match(onexception, e)
       THEN IF entr_done
            THEN /\ output(<<"excp ", func.name, " raised ", e.v[1], " ",
                             e.v[2]>> \o timing_str)
                 /\ UNCHANGED <<saved, computed>>
            ELSE /\ output(<<"cexp ", func.name, "(">> \o callargs_str
                           \o <<") raised ", e.v[1], " ", e.v[2]>>
                           \o timing_str)
                 /\ call_callargs_str
       ELSE UNCHANGED <<out, saved, computed>>
    /\ pc' = "onreturn"
    /\ UNCHANGED <<oncall, onexception, onreturn, timing, func, args, kwargs,
                   entr_done, timing_str, invoked, outcome, result>>

\* the except block: if match(onexception, e): output(...); raise
Except ==
    /\ pc = "onexception"
    /\ evals' = Append(evals, "onexception")
    /\ UNCHANGED frameVars
    /\ IF match(onexception, e)
       THEN IF entr_done
            THEN /\ output(<<"excp ", func.name, " raised ", e.v[1], " ",
                             e.v[2]>> \o timing_str)
                 /\ UNCHANGED <<saved, computed>>
            ELSE /\ output(<<"cexp ", func.name, "(">> \o callargs_str
                           \o <<") raised ", e.v[1], " ", e.v[2]>>
                           \o timing_str)
                 /\ call_callargs_str
       ELSE UNCHANGED <<out, saved, computed>>
    /\ result' = <<"raise", e>>
    /\ pc' = "done"
    /\ UNCHANGED <<oncall, onexception, onreturn, timing, func, args, kwargs,
                   entr_done, timing_str, invoked, outcome>>

\* Return putting out a record only after an entry record; C2_Emission
\* tells it from Return
Return_OnlyAfterEntry ==
    /\ pc = "onreturn"
    /\ evals' = Append(evals, "onreturn")
    /\ UNCHANGED frameVars
    /\ IF match(onreturn, retval) /\ entr_done
       THEN output(<<"exit ", func.name, " = ", xfrm(None, retval)>>
                   \o timing_str)
       ELSE UNCHANGED out
    /\ result' = <<"return", retval>>
    /\ pc' = "done"
    /\ UNCHANGED <<oncall, onexception, onreturn, timing, func, args, kwargs,
                   entr_done, timing_str, saved, computed, invoked, outcome>>

\* if match(onreturn, retval): output(...); return retval
Return ==
    /\ pc = "onreturn"
    /\ evals' = Append(evals, "onreturn")
    /\ UNCHANGED frameVars
    /\ IF match(onreturn, retval)
       THEN IF entr_done
            THEN /\ output(<<"exit ", func.name, " = ", xfrm(None, retval)>>
                           \o timing_str)
                 /\ UNCHANGED <<saved, computed>>
            ELSE /\ output(<<"call ", func.name, "(">> \o callargs_str
                           \o <<") = ", xfrm(None, retval)>> \o timing_str)
                 /\ call_callargs_str
       ELSE UNCHANGED <<out, saved, computed>>
    /\ result' = <<"return", retval>>
    /\ pc' = "done"
    /\ UNCHANGED <<oncall, onexception, onreturn, timing, func, args, kwargs,
                   entr_done, timing_str, invoked, outcome>>

\* the caller has the result and has read the sink; the frame of trace__
\* is gone
Finish ==
    /\ pc = "done"
    /\ pc' = "idle"
    /\ args' = <<>>
    /\ kwargs' = <<>>
    /\ entr_done' = FALSE
    /\ timing_str' = <<>>
    /\ saved' = Unset
    /\ computed' = 0
    /\ evals' = <<>>
    /\ UNCHANGED frameVars
    /\ invoked' = <<>>
    /\ outcome' = NoResult
    /\ result' = NoResult
    /\ out' = <<>>
    /\ UNCHANGED <<oncall, onexception, onreturn, timing, func>>

Next ==
    \/ \E a \in ArgsChoices, kw \in KwargsChoices : Call(a, kw)
    \/ Entry
    \/ \E v \in RetVals, st \in Clock, et \in Clock : FuncReturns(v, st, et)
    \/ \E x \in Errors, st \in Clock, et \in Clock : FuncRaises(x, st, et)
    \/ Except
    \/ Return
    \/ Finish

Spec == Init /\ [][Next]_vars

-----------------------------------------------------------------------------
(* Several invocations: each has its own frame of trace__, with its own     *)
(* args, kwargs, entr_done, timing_str and callargs_str; the wrappers have  *)
(* the predicates oncall, onexception, onreturn and the signature of func;  *)
(* all write to one sink.  A record of the sink is kept with the frame     *)
(* that put it out.                                                         *)

baseVars == <<oncall, onexception, onreturn, timing, func, pc, args, kwargs,
              entr_done, timing_str, saved, invoked, outcome, result, out,
              computed, evals>>

\* the frame of an invocation of the wrapper of the callable named n,
\* decorated with timing=tm, before it is called
NewFrame(n, tm) ==
    [name |-> n, timing |-> tm, pc |-> "idle", args |-> <<>>,
     kwargs |-> <<>>, entr_done |-> FALSE, timing_str |-> <<>>,
     saved |-> Unset, invoked |-> <<>>, outcome |-> NoResult,
     result |-> NoResult]

FrameIds == DOMAIN frames

\* the calls, return values and clock readings of these invocations
FrameCalls ==
    {<< <<>>, <<>> >>, << <<PyInt(1)>>, <<>> >>,
     << <<PyInt(1)>>, << <<"b", PyInt(9)>>, <<"x", PyInt(4)>> >> >>}

FrameRetVals == {PyInt(3), PyInt(9)}

\* output(text) by frame i
FrameOutput(i, text) == sink' = Append(sink, [by |-> i, text |-> text])

\* callargs_str() of frame i, reading the _saved of any frame;
\* C13_Independent tells it from FrameCallargsStr
FrameCallargsStr_Shared(i) ==
    IF \E j \in FrameIds : frames[j].saved.set
    THEN frames[CHOOSE j \in FrameIds : frames[j].saved.set].saved.val
    ELSE callargs_repr(<<PyTuple(frames[i].args), PyDict(frames[i].kwargs)>>,
                       <<>>)

\* callargs_str() of frame i
FrameCallargsStr(i) ==
    IF frames[i].saved.set THEN frames[i].saved.val
    ELSE callargs_repr(<<PyTuple(frames[i].args), PyDict(frames[i].kwargs)>>,
                       <<>>)

FrameSaved(i) == [set |-> TRUE, val |-> FrameCallargsStr(i)]

\* trace__(*args, **kwargs) is called and frame i begins
FrameCall(i, a, kw) ==
    /\ frames[i].pc = "idle"
    /\ frames' = [frames EXCEPT ![i] =
                    [@ EXCEPT !.args = a, !.kwargs = kw, !.entr_done = FALSE,
                              !.timing_str = <<>>, !.saved = Unset,
                              !.pc = "oncall"]]
    /\ UNCHANGED <<sink, baseVars>>

\* FrameEntry setting entr_done without the output; C16_Bracketed tells it
\* from FrameEntry
FrameEntry_Silent(i) ==
    /\ frames[i].pc = "oncall"
    /\ frames' = [frames EXCEPT ![i] =
                    [@ EXCEPT !.entr_done =
                                  match(oncall, CallPair(frames[i].args,
                                                         frames[i].kwargs)),
                              !.pc = "try"]]
    /\ UNCHANGED <<sink, baseVars>>

\* if match(oncall, (args, kwargs)): output('entr ...'); entr_done = True
FrameEntry(i) ==
    /\ frames[i].pc = "oncall"
    /\ IF match(oncall, CallPair(frames[i].args, frames[i].kwargs))
       THEN /\ FrameOutput(i, <<"entr ", frames[i].name, "(">>
                              \o FrameCallargsStr(i) \o <<")">>)
            /\ frames' = [frames EXCEPT ![i] =
                            [@ EXCEPT !.saved = FrameSaved(i),
                                      !.entr_done = TRUE, !.pc = "try"]]
       ELSE /\ frames' = [frames EXCEPT ![i].pc = "try"]
            /\ UNCHANGED sink
    /\ UNCHANGED baseVars

\* FrameFuncReturns leaving at once when timing is set;
\* C11_TimingNoInfluence tells it from FrameFuncReturns
FrameFuncReturns_TimedQuiet(i, v, start_time, end_time) ==
    /\ frames[i].pc = "try"
    /\ ArityOK(frames[i].args, frames[i].kwargs)
    /\ frames' = [frames EXCEPT ![i] =
                    [@ EXCEPT !.invoked = Append(@, <<frames[i].args,
                                                      frames[i].kwargs>>),
                              !.outcome = <<"return", v>>,
                              !.result = IF frames[i].timing
                                         THEN <<"return", v>> ELSE @,
                              !.timing_str =
                                  IF frames[i].timing
                                  THEN timing_fmt(end_time - start_time)
                                  ELSE @,
                              !.pc = IF frames[i].timing
                                     THEN "done" ELSE "onreturn"]]
    /\ UNCHANGED <<sink, baseVars>>

\* the try block of frame i when func returns v
FrameFuncReturns(i, v, start_time, end_time) ==
    /\ frames[i].pc = "try"
    /\ ArityOK(frames[i].args, frames[i].kwargs)
    /\ frames' = [frames EXCEPT ![i] =
                    [@ EXCEPT !.invoked = Append(@, <<frames[i].args,
                                                      frames[i].kwargs>>),
                              !.outcome = <<"return", v>>,
                              !.timing_str =
                                  IF frames[i].timing
                                  THEN timing_fmt(end_time - start_time)
                                  ELSE @,
                              !.pc = "onreturn"]]
    /\ UNCHANGED <<sink, baseVars>>

\* the try block of frame i when func raises x
FrameFuncRaises(i, x, start_time, end_time) ==
    /\ frames[i].pc = "try"
    /\ ArityOK(frames[i].args, frames[i].kwargs) \/ x = ArityError
    /\ frames' = [frames EXCEPT ![i] =
                    IF IsException(x)
                    THEN [@ EXCEPT !.invoked = Append(@, <<frames[i].args,
                                                           frames[i].kwargs>>),
                                   !.outcome = <<"raise", x>>,
                                   !.timing_str =
                                       IF frames[i].timing
                                       THEN timing_fmt(end_time - start_time)
                                       ELSE @,
                                   !.pc = "onexception"]
                    ELSE [@ EXCEPT !.invoked = Append(@, <<frames[i].args,
                                                           frames[i].kwargs>>),
                                   !.outcome = <<"raise", x>>,
                                   !.result = <<"raise", x>>,
                                   !.pc = "done"]]
    /\ UNCHANGED <<sink, baseVars>>

\* the except block of frame i
FrameExcept(i) ==
    LET fr == frames[i]
        x == fr.outcome[2]
    IN  /\ fr.pc = "onexception"
        /\ IF match(onexception, x)
           THEN IF fr.entr_done
                THEN /\ FrameOutput(i, <<"excp ", fr.name, " raised ",
                                         x.v[1], " ", x.v[2]>>
                                       \o fr.timing_str)
                     /\ frames' = [frames EXCEPT ![i] =
                                     [@ EXCEPT !.result = <<"raise", x>>,
                                               !.pc = "done"]]
                ELSE /\ FrameOutput(i, <<"cexp ", fr.name, "(">>
                                       \o FrameCallargsStr(i)
                                       \o <<") raised ", x.v[1], " ", x.v[2]>>
                                       \o fr.timing_str)
                     /\ frames' = [frames EXCEPT ![i] =
                                     [@ EXCEPT !.saved = FrameSaved(i),
                                               !.result = <<"raise", x>>,
                                               !.pc = "done"]]
           ELSE /\ frames' = [frames EXCEPT ![i] =
                                [@ EXCEPT !.result = <<"raise", x>>,
                                          !.pc = "done"]]
                /\ UNCHANGED sink
        /\ UNCHANGED baseVars

\* the lines after the try statement of frame i
FrameReturn(i) ==
    LET fr == frames[i]
        v == fr.outcome[2]
    IN  /\ fr.pc = "onreturn"
        /\ IF match(onreturn, v)
           THEN IF fr.entr_done
                THEN /\ FrameOutput(i, <<"exit ", fr.name, " = ",
                                         xfrm(None, v)>> \o fr.timing_str)
                     /\ frames' = [frames EXCEPT ![i] =
                                     [@ EXCEPT !.result = <<"return", v>>,
                                               !.pc = "done"]]
                ELSE /\ FrameOutput(i, <<"call ", fr.name, "(">>
                                       \o FrameCallargsStr(i)
                                       \o <<") = ", xfrm(None, v)>>
                                       \o fr.timing_str)
                     /\ frames' = [frames EXCEPT ![i] =
                                     [@ EXCEPT !.saved = FrameSaved(i),
                                               !.result = <<"return", v>>,
                                               !.pc = "done"]]
           ELSE /\ frames' = [frames EXCEPT ![i] =
                                [@ EXCEPT !.result = <<"return", v>>,
                                          !.pc = "done"]]
                /\ UNCHANGED sink
        /\ UNCHANGED baseVars

\* the variables of the single invocation, at rest
BaseIdle ==
    /\ pc = "idle"
    /\ args = <<>>
    /\ kwargs = <<>>
    /\ entr_done = FALSE
    /\ timing_str = <<>>
    /\ saved = Unset
    /\ computed = 0
    /\ evals = <<>>
    /\ invoked = <<>>
    /\ outcome = NoResult
    /\ result = NoResult
    /\ out = <<>>

-----------------------------------------------------------------------------
(* Concurrent invocations of one wrapped callable *)

ConcFuncs == {f \in Funcs : f.name \in {"f", "abcd2"}}
ConcOnCall == {PyTrue, PyFunc("has_posargs")}
ConcOnException == {PyFunc("is_value_error")}
ConcOnReturn == {PyTrue, PyList(<<PyInt(2), PyInt(3), PyInt(4)>>)}

\* two threads are about to call the same wrapper
InitConc ==
    /\ oncall \in ConcOnCall
    /\ onexception \in ConcOnException
    /\ onreturn \in ConcOnReturn
    /\ timing \in BOOLEAN
    /\ func \in ConcFuncs
    /\ BaseIdle
    /\ frames = <<NewFrame(func.name, timing), NewFrame(func.name, timing)>>
    /\ sink = <<>>

ConcCall == \E i \in FrameIds, c \in FrameCalls : FrameCall(i, c[1], c[2])
ConcEntry == \E i \in FrameIds : FrameEntry(i)
ConcFuncReturns ==
    \E i \in FrameIds, v \in FrameRetVals, st \in Clock, et \in Clock :
        FrameFuncReturns(i, v, st, et)
ConcFuncRaises ==
    \E i \in FrameIds, x \in Errors, st \in Clock, et \in Clock :
        FrameFuncRaises(i, x, st, et)
ConcExcept == \E i \in FrameIds : FrameExcept(i)
ConcReturn == \E i \in FrameIds : FrameReturn(i)

NextConc ==
    \/ ConcCall
    \/ ConcEntry
    \/ ConcFuncReturns
    \/ ConcFuncRaises
    \/ ConcExcept
    \/ ConcReturn

SpecConc == InitConc /\ [][NextConc]_vars

-----------------------------------------------------------------------------
(* The same invocation through two wrappers of one callable that differ in  *)
(* the timing flag only: frame 1 is of the wrapper with timing=False, frame *)
(* 2 of the wrapper with timing=True; frame 2 is called as frame 1 was and  *)
(* func does in it what it did in frame 1.                                  *)

TwinOnCall == ConcOnCall \cup {PyFalse}
TwinOnException == ConcOnException \cup {PyTrue}

InitTwin ==
    /\ oncall \in TwinOnCall
    /\ onexception \in TwinOnException
    /\ onreturn \in ConcOnReturn
    /\ timing = FALSE
    /\ func \in ConcFuncs
    /\ BaseIdle
    /\ frames = <<NewFrame(func.name, FALSE), NewFrame(func.name, TRUE)>>
    /\ sink = <<>>

TwinCall == \E c \in FrameCalls : FrameCall(1, c[1], c[2])
TwinSameCall ==
    /\ frames[1].pc # "idle"
    /\ FrameCall(2, frames[1].args, frames[1].kwargs)
TwinEntry == \E i \in FrameIds : FrameEntry(i)
TwinFuncReturns ==
    \E v \in FrameRetVals, st \in Clock, et \in Clock :
        FrameFuncReturns(1, v, st, et)
TwinFuncRaises ==
    \E x \in Errors, st \in Clock, et \in Clock :
        FrameFuncRaises(1, x, st, et)
TwinSameReturn ==
    /\ frames[1].outcome[1] = "return"
    /\ \E st \in Clock, et \in Clock :
           FrameFuncReturns(2, frames[1].outcome[2], st, et)
TwinSameRaise ==
    /\ frames[1].outcome[1] = "raise"
    /\ \E st \in Clock, et \in Clock :
           FrameFuncRaises(2, frames[1].outcome[2], st, et)
TwinExcept == \E i \in FrameIds : FrameExcept(i)
TwinReturn == \E i \in FrameIds : FrameReturn(i)

NextTwin ==
    \/ TwinCall
    \/ TwinSameCall
    \/ TwinEntry
    \/ TwinFuncReturns
    \/ TwinFuncRaises
    \/ TwinSameReturn
    \/ TwinSameRaise
    \/ TwinExcept
    \/ TwinReturn

SpecTwin == InitTwin /\ [][NextTwin]_vars

-----------------------------------------------------------------------------
(* A wrapped callable whose body calls another wrapped callable, as abcd8   *)
(* calls abcd7 at lines 185-193: frame 1 is the outer invocation, frame 2   *)
(* the inner one, begun while func of frame 1 is running; both wrappers are *)
(* made by trace() with its default predicates and write to one sink.  The  *)
(* inner callable is abcd7, whose parameters are those of abcd2.            *)

Outer == 1
Inner == 2

InitNested ==
    /\ oncall = PyTrue
    /\ onexception = PyTrue
    /\ onreturn = PyTrue
    /\ timing \in BOOLEAN
    /\ func \in {f \in Funcs : f.name = "abcd2"}
    /\ BaseIdle
    /\ frames = <<NewFrame(func.name, timing), NewFrame("abcd7", FALSE)>>
    /\ sink = <<>>

\* func of the outer frame is not in the middle of its call of the inner one
InnerAtRest == frames[Inner].pc \in {"idle", "done"}

NestedCall == \E c \in FrameCalls : FrameCall(Outer, c[1], c[2])
NestedInnerCall ==
    /\ frames[Outer].pc = "try"
    /\ ArityOK(frames[Outer].args, frames[Outer].kwargs)
    /\ \E c \in FrameCalls : FrameCall(Inner, c[1], c[2])
NestedEntry == \E i \in FrameIds : FrameEntry(i)
NestedFuncReturns ==
    /\ InnerAtRest
    /\ \E v \in FrameRetVals, st \in Clock, et \in Clock :
           FrameFuncReturns(Outer, v, st, et)
NestedFuncRaises ==
    /\ InnerAtRest
    /\ \E x \in Errors, st \in Clock, et \in Clock :
           FrameFuncRaises(Outer, x, st, et)
NestedInnerFuncReturns ==
    \E v \in FrameRetVals, st \in Clock, et \in Clock :
        FrameFuncReturns(Inner, v, st, et)
NestedInnerFuncRaises ==
    \E x \in Errors, st \in Clock, et \in Clock :
        FrameFuncRaises(Inner, x, st, et)
NestedExcept == \E i \in FrameIds : FrameExcept(i)
NestedReturn == \E i \in FrameIds : FrameReturn(i)

NextNested ==
    \/ NestedCall
    \/ NestedInnerCall
    \/ NestedEntry
    \/ NestedFuncReturns
    \/ NestedFuncRaises
    \/ NestedInnerFuncReturns
    \/ NestedInnerFuncRaises
    \/ NestedExcept
    \/ NestedReturn

SpecNested == InitNested /\ [][NextNested]_vars

-----------------------------------------------------------------------------
(* Reading the sink *)

Kind(r) == r[1]

ReturnKinds == {"exit ", "call "}
ErrorKinds == {"excp ", "cexp "}
ClosingKinds == ReturnKinds \cup ErrorKinds

HasKind(K) == \E i \in 1..Len(out) : Kind(out[i]) \in K

Returned == pc = "done" /\ result[1] = "return"
Raised == pc = "done" /\ result[1] = "raise"

DefaultPredicates ==
    oncall = PyTrue /\ onexception = PyTrue /\ onreturn = PyTrue

-----------------------------------------------------------------------------
(* C1 *)

\* C1: when trace__ has left, what it gave its caller is what func did: the
\* value func returned is returned, the error func raised is raised, the
\* same object, under every configuration and whatever was put out.
C1_Propagated ==
    /\ pc = "done" => (outcome # NoResult /\ result = outcome)
    /\ pc # "done" => result = NoResult

\* an error was reported and then reached the caller
C1_Witness ==
    /\ Raised
    /\ HasKind(ErrorKinds)
    /\ result = <<"raise", PyExc("ValueError", "bad")>>

-----------------------------------------------------------------------------
(* C2 *)

C2_EntryIffMatch ==
    pc \in {"try", "onreturn", "onexception", "done"} =>
        (HasKind({"entr "}) <=> match(oncall, CallPair(args, kwargs)))

C2_ReturnIffMatch ==
    Returned => (HasKind(ReturnKinds) <=> match(onreturn, result[2]))

\* C2 as claimed: an entry record iff oncall matches (args, kwargs); after a
\* return an exit or call record iff onreturn matches the value; after any
\* raised error an excp or cexp record iff onexception matches the error.
C2_Original ==
    /\ C2_EntryIffMatch
    /\ C2_ReturnIffMatch
    /\ Raised => (HasKind(ErrorKinds) <=> match(onexception, result[2]))

\* C2 amended: as claimed, but an error record is put out iff the raised
\* error is an instance of Exception and onexception matches it; an error
\* that is not an Exception is never reported.  None of the three decisions
\* looks at whether an entry record was put out.
C2_Emission ==
    /\ C2_EntryIffMatch
    /\ C2_ReturnIffMatch
    /\ Raised => (HasKind(ErrorKinds) <=>
                    (IsException(result[2]) /\ match(onexception, result[2])))

\* an error was matched and reported though no entry record was put out
C2_Witness ==
    /\ Raised
    /\ ~HasKind({"entr "})
    /\ match(onexception, result[2])
    /\ HasKind(ErrorKinds)

-----------------------------------------------------------------------------
(* C3 *)

\* the records 'exit %s = %s%s' and 'excp %s raised %s %s%s' carry no
\* argument list, 'call %s(%s) = %s%s' and 'cexp %s(%s) raised %s %s%s'
\* carry the rendering of the arguments between "(" and ")"
NoArgList(r, sep) == r[2] = func.name /\ r[3] = sep

WithArgList(r, close) ==
    /\ r[2] = func.name
    /\ r[3] = "("
    /\ saved.set
    /\ Len(r) >= 4 + Len(saved.val)
    /\ SubSeq(r, 4, 3 + Len(saved.val)) = saved.val
    /\ r[4 + Len(saved.val)] = close

\* C3: a closing record is exit (after a return) or excp (after an error)
\* when an entr record of the invocation went before it, and call or cexp,
\* with the rendered argument list, when none did; exit and excp never come
\* without an entr before them, call and cexp never after one.
C3_ClosingKind ==
    \A i \in 1..Len(out) :
        LET r == out[i]
            entered == \E j \in 1..(i - 1) : Kind(out[j]) = "entr "
        IN  /\ Kind(r) \in {"exit ", "excp "} => entered
            /\ Kind(r) \in {"call ", "cexp "} => ~entered
            /\ Kind(r) \in ReturnKinds =>
                  /\ Returned
                  /\ IF entered
                     THEN Kind(r) = "exit " /\ NoArgList(r, " = ")
                          /\ r[4] = repr(result[2])
                     ELSE Kind(r) = "call " /\ WithArgList(r, ") = ")
                          /\ r[5 + Len(saved.val)] = repr(result[2])
            /\ Kind(r) \in ErrorKinds =>
                  /\ Raised
                  /\ IF entered
                     THEN Kind(r) = "excp " /\ NoArgList(r, " raised ")
                     ELSE Kind(r) = "cexp " /\ WithArgList(r, ") raised ")

\* a matched error with no entry record before it is reported as cexp
C3_Witness ==
    /\ Raised
    /\ Len(out) = 1
    /\ Kind(out[1]) = "cexp "
    /\ Len(args) > 0

-----------------------------------------------------------------------------
(* C4 *)

KindsOut == [i \in 1..Len(out) |-> Kind(out[i])]

\* the order of events up to a normal return, with the default predicates
C4_Stages ==
    DefaultPredicates =>
        /\ pc \in {"idle", "oncall"} => (out = <<>> /\ invoked = <<>>)
        /\ pc = "try" => (KindsOut = <<"entr ">> /\ invoked = <<>>)
        /\ pc \in {"onreturn", "onexception"} =>
              /\ KindsOut = <<"entr ">>
              /\ invoked = << <<args, kwargs>> >>
              /\ result = NoResult
        /\ Returned => (KindsOut = <<"entr ", "exit ">> /\ Len(invoked) = 1)
        /\ Raised => Len(invoked) = 1

\* no record is put out once trace__ has left
C4_NothingAfter ==
    [][(pc \in {"done", "idle"}) => (Len(out') =< Len(out))]_vars

\* C4 as claimed: with the default predicates the entr record, then the
\* call of func, then exactly one exit record and the return, or, for any
\* raised error, exactly one excp record and then the propagation; nothing
\* is put out after trace__ has left.
C4_Original ==
    /\ [](C4_Stages /\
          (DefaultPredicates /\ Raised => KindsOut = <<"entr ", "excp ">>))
    /\ C4_NothingAfter

\* C4 amended: as claimed, but the excp record is put out only for a raised
\* error that is an instance of Exception; an error that is not propagates
\* with the entr record as the only record of the invocation.
C4_EventOrder ==
    /\ [](C4_Stages /\
          (DefaultPredicates /\ Raised =>
              KindsOut = IF IsException(result[2])
                         THEN <<"entr ", "excp ">> ELSE <<"entr ">>))
    /\ C4_NothingAfter

\* h(1) raised ValueError("bad") under the default predicates
C4_Witness ==
    /\ DefaultPredicates
    /\ Raised
    /\ func.name = "h"
    /\ args = <<PyInt(1)>>
    /\ result[2] = PyExc("ValueError", "bad")
    /\ KindsOut = <<"entr ", "excp ">>

-----------------------------------------------------------------------------
(* C5, C6, C7: the rendered argument list *)

NDeclared == Len(argspec.args)

\* the fragments of the k-th entry 'name=text' of a joined argument list
EntryAt(text, k) == SubSeq(text, 4 * (k - 1) + 1, 4 * (k - 1) + 3)

\* the number of fragments of n joined entries
JoinedLen(n) == IF n = 0 THEN 0 ELSE 4 * n - 1

\* the value the call binds to the i-th declared parameter: the actual
\* positional or keyword argument, else the declared default, else unset
EffectiveValue(i) ==
    LET firstDefault == NDeclared - Len(argspec.defaults) + 1
    IN  IF i <= Len(args) THEN args[i]
        ELSE IF HasKey(kwargs, argspec.args[i])
             THEN Lookup(kwargs, argspec.args[i])
        ELSE IF i >= firstDefault
             THEN argspec.defaults[i - firstDefault + 1]
        ELSE None

\* C5 as claimed: for a call with at most as many positional arguments as
\* declared parameters, the rendered argument list shows each declared
\* parameter with its effective value: f(a, b=2) called as f(1) renders
\* a=1, b=2.
C5_EffectiveValues ==
    (saved.set /\ Len(args) <= NDeclared) =>
        /\ Len(saved.val) >= JoinedLen(NDeclared)
        /\ \A i \in 1..NDeclared :
              EntryAt(saved.val, i) =
                  <<argspec.args[i], "=", repr(EffectiveValue(i))>>

\* the keyword arguments of the call that name no declared parameter
ExtraKeywords ==
    LET declared == {argspec.args[i] : i \in 1..NDeclared}
        F[n \in 0..Len(kwargs)] ==
            IF n = 0 THEN <<>>
            ELSE IF kwargs[n][1] \in declared THEN F[n - 1]
            ELSE Append(F[n - 1], kwargs[n])
    IN  F[Len(kwargs)]

\* C6 as claimed: the *name entry renders the positional arguments of the
\* call beyond the declared parameters, the **name entry the keyword
\* arguments of the call that name no declared parameter.
C6_Extras ==
    saved.set =>
        /\ Truthy(argspec.varargs) =>
              EntryAt(saved.val, NDeclared + 1) =
                  <<"*" \o argspec.varargs.v, "=",
                    repr(PyTuple(Drop(args, NDeclared)))>>
        /\ Truthy(argspec.keywords) =>
              EntryAt(saved.val,
                      NDeclared + 1 + (IF Truthy(argspec.varargs) THEN 1 ELSE 0))
                  = <<"**" \o argspec.keywords.v, "=",
                      repr(PyDict(ExtraKeywords))>>

\* C7: a rendered argument list has one entry per declared parameter, in
\* the order of declaration, however many arguments the call had, then a
\* *name entry iff the callable declares *name, then a **name entry iff it
\* declares **name, and nothing else.
C7_Shape ==
    saved.set =>
        LET va == IF Truthy(argspec.varargs) THEN 1 ELSE 0
            vk == IF Truthy(argspec.keywords) THEN 1 ELSE 0
            n == NDeclared + va + vk
            text == saved.val
        IN  /\ Len(text) = JoinedLen(n)
            /\ \A k \in 1..n : text[4 * k - 2] = "="
            /\ \A k \in 1..(n - 1) : text[4 * k] = ", "
            /\ \A i \in 1..NDeclared : text[4 * i - 3] = argspec.args[i]
            /\ va = 1 => text[4 * (NDeclared + 1) - 3] = "*" \o argspec.varargs.v
            /\ vk = 1 => text[4 * n - 3] = "**" \o argspec.keywords.v

\* a call with fewer arguments than the three declared parameters, rendered
C7_Witness ==
    /\ saved.set
    /\ NDeclared = 3
    /\ Len(args) = 1
    /\ kwargs = <<>>
    /\ Len(out) = 1
    /\ Len(saved.val) = 11

-----------------------------------------------------------------------------
(* C8 *)

\* the record ends in ' (<N> usecs)'
HasTimingSuffix(r) ==
    /\ Len(r) >= 3
    /\ r[Len(r) - 2] = " ("
    /\ r[Len(r)] = " usecs)"

\* C8 as claimed: with timing every record put out carries the suffix,
\* without timing none does.
C8_Original ==
    \A i \in 1..Len(out) : HasTimingSuffix(out[i]) <=> timing

\* C8 amended: with timing every exit, call, excp and cexp record carries
\* the ' (<N> usecs)' suffix, on the success and on the failure path, and
\* the entr record does not; without timing no record carries it.
C8_Suffix ==
    \A i \in 1..Len(out) :
        HasTimingSuffix(out[i]) <=>
            (timing /\ Kind(out[i]) \in ClosingKinds)

\* a timed call that failed and was reported after its entry
C8_Witness ==
    /\ timing
    /\ Raised
    /\ KindsOut = <<"entr ", "excp ">>
    /\ HasTimingSuffix(out[2])

-----------------------------------------------------------------------------
(* C9 *)

\* the predicate and the value of each place where trace__ calls match
MatchSites ==
    (IF pc = "oncall" THEN {<<oncall, CallPair(args, kwargs)>>} ELSE {})
    \cup (IF pc = "onreturn" THEN {<<onreturn, retval>>} ELSE {})
    \cup (IF pc = "onexception" THEN {<<onexception, e>>} ELSE {})

IsCollection(onX) == onX.t \in {"tuple", "list"}
IsMember(onX, val) == \E i \in 1..Len(onX.v) : onX.v[i] = val

\* the cases of C9 other than the disabled one
C9_EnabledCases(onX, val) ==
    /\ onX = PyTrue => match(onX, val)
    /\ onX.t = "function" => (match(onX, val) <=> Apply(onX, val))
    /\ (IsCollection(onX) /\ onX.v # <<>>) =>
          (match(onX, val) <=> IsMember(onX, val))

\* C9 as claimed: match is false for a disabled predicate, true for True,
\* the evaluator's result for an evaluator, membership for a collection,
\* and equality with the value for every other fixed value.
C9_Original ==
    \A site \in MatchSites :
        LET onX == site[1]
            val == site[2]
        IN  /\ onX \in {PyFalse, None} => ~match(onX, val)
            /\ C9_EnabledCases(onX, val)
            /\ onX.t = "int" => (match(onX, val) <=> onX = val)

\* C9 amended: match is false for a disabled predicate and for every other
\* false value (the fixed value 0, an empty collection), true for True, the
\* evaluator's result for an evaluator, membership for a collection, and
\* equality with the value for every other fixed value that is not false;
\* onreturn [2, 3, 4] with the return value 9 puts out no record.
C9_Match ==
    /\ \A site \in MatchSites :
          LET onX == site[1]
              val == site[2]
          IN  /\ onX \in {PyFalse, None} => ~match(onX, val)
              /\ C9_EnabledCases(onX, val)
              /\ onX.t = "int" =>
                    (match(onX, val) <=> (onX.v # 0 /\ onX = val))
    /\ (Returned /\ IsCollection(onreturn) /\ result[2] = PyInt(9)) =>
          ~HasKind(ReturnKinds)

\* onreturn [2, 3, 4]: the call returned 9 and only the entry was put out
C9_Witness ==
    /\ Returned
    /\ onreturn = PyList(<<PyInt(2), PyInt(3), PyInt(4)>>)
    /\ result[2] = PyInt(9)
    /\ KindsOut = <<"entr ">>

-----------------------------------------------------------------------------
(* C10 *)

\* C10: func is called exactly once in an invocation of trace__, with the
\* positional and keyword arguments trace__ was called with, under every
\* configuration, an entry record or not.
C10_PassThrough ==
    /\ pc \in {"onreturn", "onexception", "done"} =>
          invoked = << <<args, kwargs>> >>
    /\ pc \in {"idle", "oncall", "try"} => invoked = <<>>

\* func got two positional and two keyword arguments and nothing was put out
C10_Witness ==
    /\ pc = "done"
    /\ out = <<>>
    /\ Len(args) = 2
    /\ kwargs = << <<"b", PyInt(9)>>, <<"x", PyInt(4)>> >>
    /\ invoked = << <<args, kwargs>> >>

-----------------------------------------------------------------------------
(* C11 *)

\* the texts frame i has put out, in order
FrameTexts(i) ==
    LET mine == SelectSeq(sink, LAMBDA r : r.by = i)
    IN  [k \in 1..Len(mine) |-> mine[k].text]

FrameKinds(i) == [k \in 1..Len(FrameTexts(i)) |-> Kind(FrameTexts(i)[k])]

FrameDone(i) == frames[i].pc = "done"

\* the text of a record without its ' (<N> usecs)'
StripSuffix(r) == IF HasTimingSuffix(r) THEN SubSeq(r, 1, Len(r) - 3) ELSE r

\* C11: the same invocation through the wrapper with timing=False and the
\* wrapper with timing=True, at the same place in trace__, has put out the
\* same kinds of records, and once both have left they gave the caller the
\* same return value or raised error and their records are the same texts
\* up to the ' (<N> usecs)' the timed one carries.
C11_TimingNoInfluence ==
    /\ frames[1].pc = frames[2].pc => FrameKinds(1) = FrameKinds(2)
    /\ (FrameDone(1) /\ FrameDone(2)) =>
           /\ frames[1].result = frames[2].result
           /\ \A k \in 1..Len(FrameTexts(1)) :
                  /\ ~HasTimingSuffix(FrameTexts(1)[k])
                  /\ StripSuffix(FrameTexts(2)[k]) = FrameTexts(1)[k]

\* both wrappers were called alike, func returned the same in both, and
\* the closing record of the timed one differs
C11_Witness ==
    /\ FrameDone(1) /\ FrameDone(2)
    /\ ~frames[1].timing /\ frames[2].timing
    /\ frames[1].result[1] = "return"
    /\ FrameKinds(1) = <<"entr ", "exit ">>
    /\ FrameKinds(2) = <<"entr ", "exit ">>
    /\ FrameTexts(1) # FrameTexts(2)

-----------------------------------------------------------------------------
(* C12 *)

\* the records 'entr %s(%s)', 'call %s(%s) ...' and 'cexp %s(%s) ...'
HasArgList(r) == r[3] = "("

\* what callargs_repr gives for the arguments of this invocation
RenderingOfCall == callargs_repr(<<PyTuple(args), PyDict(kwargs)>>, <<>>)

\* C12: in one invocation callargs_repr runs at most once, however many
\* records are put out, and not at all when no record with an argument
\* list is put out; a record's argument list is the saved rendering, which
\* is that of this invocation's arguments: an invocation starts with
\* nothing saved.
C12_RenderedOnce ==
    /\ computed <= 1
    /\ computed = 1 <=> (\E i \in 1..Len(out) : HasArgList(out[i]))
    /\ computed = 1 <=> saved.set
    /\ saved.set => saved.val = RenderingOfCall
    /\ pc \in {"idle", "oncall"} => ~saved.set
    /\ \A i \in 1..Len(out) :
          HasArgList(out[i]) =>
              SubSeq(out[i], 4, 3 + Len(saved.val)) = saved.val

\* an entry and an exit record were put out and callargs_repr ran once
C12_Witness ==
    /\ Returned
    /\ KindsOut = <<"entr ", "exit ">>
    /\ Len(args) = 1
    /\ computed = 1

-----------------------------------------------------------------------------
(* C13 *)

FrameRendering(i) ==
    callargs_repr(<<PyTuple(frames[i].args), PyDict(frames[i].kwargs)>>, <<>>)

\* what frame i holds and has put out is made of its own call
C13_OwnState(i) ==
    /\ frames[i].saved.set => frames[i].saved.val = FrameRendering(i)
    /\ frames[i].entr_done <=>
           (\E k \in 1..Len(FrameTexts(i)) : Kind(FrameTexts(i)[k]) = "entr ")
    /\ \A k \in 1..Len(FrameTexts(i)) :
           LET r == FrameTexts(i)[k]
           IN  /\ r[2] = frames[i].name
               /\ HasArgList(r) =>
                      SubSeq(r, 4, 3 + Len(FrameRendering(i)))
                          = FrameRendering(i)
    /\ FrameDone(i) => frames[i].result = frames[i].outcome

\* two invocations with the same call, the same outcome of func and the
\* same timing string have put out the same records and given the same result
C13_SameInSameOut(i, j) ==
    (/\ FrameDone(i) /\ FrameDone(j)
     /\ frames[i].args = frames[j].args
     /\ frames[i].kwargs = frames[j].kwargs
     /\ frames[i].outcome = frames[j].outcome
     /\ frames[i].timing_str = frames[j].timing_str)
    => /\ FrameTexts(i) = FrameTexts(j)
       /\ frames[i].result = frames[j].result

\* a step is a step of one invocation: it leaves the frame of every other
\* invocation, the predicates, the timing flag and the callable as they were
C13_OneFrameAStep ==
    [][/\ \A i \in FrameIds, j \in FrameIds :
              (i # j /\ frames'[i] # frames[i]) => (frames'[j] = frames[j])
       /\ \A i \in FrameIds :
              /\ frames'[i].name = frames[i].name
              /\ frames'[i].timing = frames[i].timing
       /\ UNCHANGED <<oncall, onexception, onreturn, timing, func>>]_vars

\* C13: invocations of one wrapper running at the same time share nothing
\* that changes: each step changes the locals of one invocation only and
\* never the wrapper's predicates, timing flag or callable, and the cached
\* rendering, the entry flag, the records and the result of an invocation
\* are those of its own arguments and its own outcome, however the steps of
\* the other invocation fall between its own.
C13_NoSharedState ==
    /\ [](\A i \in FrameIds : C13_OwnState(i))
    /\ [](\A i \in FrameIds, j \in FrameIds : C13_SameInSameOut(i, j))
    /\ C13_OneFrameAStep

\* two invocations with different calls, their records interleaved
C13_Witness ==
    /\ FrameDone(1) /\ FrameDone(2)
    /\ <<frames[1].args, frames[1].kwargs>> # <<frames[2].args, frames[2].kwargs>>
    /\ Len(sink) = 4
    /\ [k \in 1..4 |-> sink[k].by] = <<1, 2, 1, 2>>
    /\ frames[1].saved.set /\ frames[2].saved.set



-----------------------------------------------------------------------------
(* C14 *)

\* C14: whatever the arguments, too few or too many included, an invocation
\* whose oncall matches gets its entry record with a rendering of the shape
\* the signature gives, the rendering is the same function of signature and
\* arguments on every path, and a call whose arguments do not fit ends in
\* the TypeError that func itself raised when it was called with them.
C14_Total ==
    /\ (pc \in {"try", "onreturn", "onexception", "done"}
        /\ match(oncall, CallPair(args, kwargs))) =>
          (saved.set /\ Len(out) >= 1 /\ Kind(out[1]) = "entr ")
    /\ saved.set =>
          /\ saved.val = RenderingOfCall
          /\ Len(saved.val) =
                JoinedLen(NDeclared
                          + (IF Truthy(argspec.varargs) THEN 1 ELSE 0)
                          + (IF Truthy(argspec.keywords) THEN 1 ELSE 0))
    /\ pc = "oncall" =>
          \A a \in ArgsChoices, kw \in KwargsChoices :
              Len(callargs_repr(a, kw)) = Len(RenderingOfCall)
    /\ (pc = "done" /\ ~ArityOK(args, kwargs)) =>
          /\ invoked = << <<args, kwargs>> >>
          /\ outcome = <<"raise", ArityError>>
          /\ result = outcome
    /\ (pc = "done" /\ result[1] = "raise") => Len(invoked) = 1

\* abcd1(a, b, c) called with one argument: rendered, then func's TypeError
C14_Witness ==
    /\ Raised
    /\ func.name = "abcd1"
    /\ Len(args) = 1
    /\ kwargs = <<>>
    /\ ~ArityOK(args, kwargs)
    /\ KindsOut = <<"entr ", "excp ">>
    /\ result[2] = ArityError

-----------------------------------------------------------------------------
(* C15 *)

NumKind(K) == Cardinality({i \in 1..Len(out) : Kind(out[i]) \in K})

\* C15: an invocation puts out at most one entr record and at most one of
\* exit, call, excp, cexp; exit and call only when func returned, excp and
\* cexp only when it raised; onreturn is tested only after a return and
\* onexception only after a raised error.
C15_TwoRecords ==
    /\ Len(out) <= 2
    /\ NumKind({"entr "}) <= 1
    /\ NumKind(ClosingKinds) <= 1
    /\ Len(out) = NumKind({"entr "}) + NumKind(ClosingKinds)
    /\ HasKind(ReturnKinds) => outcome[1] = "return"
    /\ HasKind(ErrorKinds) => outcome[1] = "raise"
    /\ \A i \in 1..Len(evals) :
          /\ evals[i] = "onreturn" => outcome[1] = "return"
          /\ evals[i] = "onexception" => outcome[1] = "raise"

\* a failed call: two records, onreturn never tested
C15_Witness ==
    /\ Raised
    /\ KindsOut = <<"entr ", "excp ">>
    /\ evals = <<"oncall", "onexception">>


-----------------------------------------------------------------------------
(* C16 *)

\* who put out each record of the sink, and its kind
SinkShape == [k \in 1..Len(sink) |-> <<sink[k].by, Kind(sink[k].text)>>]

\* the records of the inner invocation lie after the entr of the outer one
\* and before its closing record
C16_Inside ==
    \A k \in 1..Len(sink) :
        sink[k].by = Inner =>
            /\ k >= 2
            /\ SinkShape[1] = <<Outer, "entr ">>
            /\ \A m \in 1..(k - 1) :
                   ~(sink[m].by = Outer /\ SinkShape[m][2] \in ClosingKinds)

\* the closing record trace__ puts out under the default predicates for what
\* frame i gave its caller
ClosingOf(i) ==
    IF frames[i].result[1] = "return" THEN << <<i, "exit ">> >>
    ELSE IF IsException(frames[i].result[2]) THEN << <<i, "excp ">> >>
    ELSE <<>>

\* C16 as claimed: once both invocations have left, the sink holds the
\* outer entr, the inner entr, a closing record of the inner one and a
\* closing record of the outer one, in this order.
C16_Original ==
    /\ C16_Inside
    /\ (FrameDone(Outer) /\ FrameDone(Inner)) =>
           /\ Len(sink) = 4
           /\ SinkShape[1] = <<Outer, "entr ">>
           /\ SinkShape[2] = <<Inner, "entr ">>
           /\ SinkShape[3][1] = Inner /\ SinkShape[3][2] \in ClosingKinds
           /\ SinkShape[4][1] = Outer /\ SinkShape[4][2] \in ClosingKinds

\* C16: when the body of a wrapped callable calls another wrapped callable,
\* both with the default predicates and one sink, the records of the inner
\* invocation lie after the entr of the outer one and before its closing
\* record, and once both have left the sink holds the outer entr, the inner
\* entr, then the inner exit or excp and then the outer exit or excp, where
\* an invocation that left with an error that is not an Exception has no
\* closing record.
C16_Bracketed ==
    /\ C16_Inside
    /\ (FrameDone(Outer) /\ FrameDone(Inner)) =>
           SinkShape = << <<Outer, "entr ">>, <<Inner, "entr ">> >>
                           \o ClosingOf(Inner) \o ClosingOf(Outer)

\* the inner call raised ValueError, the outer body caught it and returned
C16_Witness ==
    /\ FrameDone(Outer) /\ FrameDone(Inner)
    /\ frames[Inner].result = <<"raise", PyExc("ValueError", "bad")>>
    /\ frames[Outer].result[1] = "return"
    /\ SinkShape = << <<Outer, "entr ">>, <<Inner, "entr ">>,
                      <<Inner, "excp ">>, <<Outer, "exit ">> >>


====
